---- MODULE Spec2Model ----
(***************************************************************************)
(* Model of app/components/chat/Chat.client.tsx (ChatImpl).                *)
(*                                                                         *)
(* Strings that the code trims, tests for emptiness or concatenates are    *)
(* sequences of one-character strings.  A message is a record              *)
(* [id, role, content]; content is [kind, text, parts] where kind is       *)
(* "string" (content is the text) or "parts" (content is the part list).   *)
(***************************************************************************)
EXTENDS Integers, Sequences, FiniteSets, TLC

VARIABLES
    input,          \* useChat: input
    messages,       \* useChat: messages
    error,          \* useChat: error (TRUE when error != null)
    reloads,        \* useChat: reload() requests in flight (not awaited)
    chatStarted,    \* useState chatStarted
    fakeLoading,    \* useState fakeLoading
    autoSelectTemplate, \* useSettings().autoSelectTemplate
    fileMods,       \* workbenchStore: getFileModifcations() !== undefined
    animating,      \* runAnimation() is between its await and setChatStarted
    model,          \* useState model
    provider,       \* useState provider
    cookies,        \* js-cookie jar: selectedModel, selectedProvider, prompt
    debounceTimer,  \* debouncedCachePrompt: a timer is pending
    loadState,      \* loadChats: "fetch", "json", "done", "failed"
    chats,          \* loadChats: body of the get-chats response
    inv,            \* the sendMessage invocations, one record per slot
    sends,          \* number of sendMessage invocations so far
    returned,       \* the sendMessage invocation that ended last
    toast,          \* the operation the latest toast is about
    silent,         \* operations that failed without a toast
    uncaught,       \* operations whose failure left the handler uncaught
    doneClean,      \* a guarded sendMessage returned, no input change since
    modelChanged,   \* handleModelChange was called in this session
    providerChanged,\* handleProviderChange was called in this session
    sessions,       \* number of mounts of ChatImpl so far
    now,            \* Date.now() in ms
    lastTime,       \* createSampler: lastTime
    lastArgs,       \* createSampler: lastArgs
    timeout,        \* createSampler: due time of the trailing timer
    initialMessages,\* prop initialMessages
    fired,          \* times at which the sampled callback ran
    stored          \* lengths of the lists given to storeMessageHistory

vars == <<input, messages, error, reloads, chatStarted, fakeLoading,
          autoSelectTemplate, fileMods, animating, model, provider, cookies,
          debounceTimer, loadState, chats, inv, returned, sends, toast, silent,
          uncaught, doneClean, modelChanged, providerChanged, sessions,
          now, lastTime, lastArgs, timeout, initialMessages, fired, stored>>

cookieVars == <<model, provider, modelChanged, providerChanged, sessions>>
samplerVars == <<now, lastTime, lastArgs, timeout, initialMessages, fired,
                 stored>>

----------------------------------------------------------------------------
(* Bounds *)
MaxSends == 2
MaxSessions == 2
MaxTime == 150
MaxLen == 3

(* Program constants *)
SampleInterval == 50

Slots == {1, 2}
Absent == <<"<absent>">>
NoTimer == -1

----------------------------------------------------------------------------
(* Strings *)
RECURSIVE TrimLeft(_)
TrimLeft(s) == IF s # <<>> /\ Head(s) = " " THEN TrimLeft(Tail(s)) ELSE s

RECURSIVE TrimRight(_)
TrimRight(s) ==
    IF s # <<>> /\ s[Len(s)] = " " THEN TrimRight(SubSeq(s, 1, Len(s) - 1))
    ELSE s

Trim(s) == TrimRight(TrimLeft(s))

Digit(d) == CASE d = 0 -> "0" [] d = 1 -> "1" [] d = 2 -> "2" [] d = 3 -> "3"
              [] d = 4 -> "4" [] d = 5 -> "5" [] d = 6 -> "6" [] d = 7 -> "7"
              [] d = 8 -> "8" [] d = 9 -> "9"

RECURSIVE toString(_)
toString(n) == IF n < 10 THEN <<Digit(n)>>
               ELSE Append(toString(n \div 10), Digit(n % 10))

InputTexts == {<<>>, <<"a">>, <<"a", " ">>}
\* the messageInput argument of sendMessage: none, or an example prompt
MessageInputs == {<<>>, <<"b">>}

----------------------------------------------------------------------------
(* ~/utils/constants *)
DEFAULT_MODEL == <<"default-model">>
PROVIDER_LIST == <<[name |-> <<"P1">>], [name |-> <<"P2">>]>>
DEFAULT_PROVIDER == PROVIDER_LIST[1]
\* what the model and provider selectors can hand to the change handlers;
\* provider PX is active but not an entry of PROVIDER_LIST
Models == {DEFAULT_MODEL, <<"m", "1">>, <<"m", " ", "2">>}
Providers == {[name |-> <<"P1">>], [name |-> <<"P2">>], [name |-> <<"PX">>]}

----------------------------------------------------------------------------
(* Messages *)
StringContent(t) == [kind |-> "string", text |-> t, parts |-> <<>>]
PartsContent(ps) == [kind |-> "parts", text |-> <<>>, parts |-> ps]
TextPart(t) == [type |-> "text", value |-> t]
ImagePart(u) == [type |-> "image", value |-> u]

Prefixed(m, p, t) ==
    <<"[Model: ">> \o m \o <<"]\n\n[Provider: ">> \o p.name \o <<"]\n\n">> \o t

TimeId == <<"<Date.getTime>">>
HookId == <<"<generateId>">>

UserPartsMessage(m, p, t) ==
    [id |-> TimeId, role |-> "user",
     content |-> PartsContent(<<TextPart(Prefixed(m, p, t))>>)]

AppendedMessage(m, p, t) ==
    [id |-> HookId, role |-> "user",
     content |-> PartsContent(<<TextPart(Prefixed(m, p, t))>>)]

AssistantReply ==
    [id |-> HookId, role |-> "assistant", content |-> StringContent(<<"r">>)]

TemplateMessages(m, p, t) ==
    << [id |-> TimeId, role |-> "user", content |-> StringContent(t)],
       [id |-> TimeId, role |-> "assistant",
        content |-> StringContent(<<"assistantMessage">>)],
       [id |-> TimeId, role |-> "user",
        content |-> StringContent(Prefixed(m, p, <<"userMessage">>))] >>

----------------------------------------------------------------------------
(* Cookies (js-cookie) *)
PROMPT_COOKIE_KEY == "cachedPrompt"
\* the jar holds percent-encoded values; get decodes what set encoded
Encode(s) == [k \in 1..Len(s) |->
                 CASE s[k] = " " -> "%20" [] s[k] = "%" -> "%25"
                   [] OTHER -> s[k]]
Decode(s) == [k \in 1..Len(s) |->
                 CASE s[k] = "%20" -> " " [] s[k] = "%25" -> "%"
                   [] OTHER -> s[k]]
CookiesGet(jar, key) == IF jar[key] = Absent THEN Absent ELSE Decode(jar[key])
CookiesSet(jar, key, value) == [jar EXCEPT ![key] = Encode(value)]
CookiesRemove(jar, key) == [jar EXCEPT ![key] = Absent]
\* JavaScript's  a || b  on strings: absent and '' are falsy
OrElse(a, b) == IF a = Absent \/ a = <<>> THEN b ELSE a

----------------------------------------------------------------------------
(* loadChats *)
Record(i, s, m, u) == [id |-> i, sender |-> s, message |-> m, image_url |-> u]
NullId == -1

\* mutant: only sender "bot" becomes an assistant message
FormatChatBotOnly(chat) ==
    [id |-> toString(chat.id),
     role |-> IF chat.sender = "bot" THEN "assistant" ELSE "user",
     content |-> IF chat.image_url # <<>>
                 THEN PartsContent(<<TextPart(chat.message),
                                     ImagePart(chat.image_url)>>)
                 ELSE StringContent(chat.message)]

FormatChat(chat) ==
    [id |-> toString(chat.id),
     role |-> IF chat.sender = "user" THEN "user" ELSE "assistant",
     content |-> IF chat.image_url # <<>>
                 THEN PartsContent(<<TextPart(chat.message),
                                     ImagePart(chat.image_url)>>)
                 ELSE StringContent(chat.message)]

FormatChats(list) == [k \in 1..Len(list) |-> FormatChat(list[k])]

\* chats.map(...) throws when the body is no array or an id is null
MapThrows(body) ==
    \/ body.json # "array"
    \/ \E k \in 1..Len(body.list) : body.list[k].id = NullId

ArrayBody(list) == [json |-> "array", list |-> list]
NoBody == [json |-> "none", list |-> <<>>]
BadBodies == {[json |-> "invalid", list |-> <<>>],
              [json |-> "object", list |-> <<>>]}

SmallBodies ==
    BadBodies \cup
    {ArrayBody(<<>>),
     ArrayBody(<<Record(7, "user", <<"a">>, <<>>),
                 Record(12, "bot", <<"r">>, <<>>)>>)}

\* toast.error / toast.warning after the failure of op
Toast(op) == toast' = op /\ UNCHANGED silent
\* op failed and the code shows no toast
Silent(op) == silent' = silent \cup {op} /\ UNCHANGED toast
NoFailure == UNCHANGED <<toast, silent>>

LoadFetchSettle(bodies) ==
    /\ loadState = "fetch"
    /\ \/ /\ \E b \in bodies : chats' = b
          /\ loadState' = "json"
          /\ NoFailure
       \/ /\ loadState' = "failed"
          /\ Toast("get-chats")
          /\ UNCHANGED chats
    /\ UNCHANGED <<input, messages, error, reloads, chatStarted, fakeLoading,
                   autoSelectTemplate, fileMods, animating, cookies,
                   debounceTimer, inv, returned, sends, uncaught,
                   doneClean>>
    /\ UNCHANGED cookieVars
    /\ UNCHANGED samplerVars

LoadJsonSettle ==
    /\ loadState = "json"
    /\ IF chats.json = "invalid" \/ MapThrows(chats)
       THEN /\ loadState' = "failed"
            /\ Toast("get-chats")
            /\ UNCHANGED messages
       ELSE /\ loadState' = "done"
            /\ messages' = FormatChats(chats.list)
            /\ NoFailure
    /\ UNCHANGED <<input, error, reloads, chatStarted, fakeLoading,
                   autoSelectTemplate, fileMods, animating, cookies,
                   debounceTimer, chats, inv, returned, sends, uncaught,
                   doneClean>>
    /\ UNCHANGED cookieVars
    /\ UNCHANGED samplerVars

----------------------------------------------------------------------------
(* useChat *)
Awaiting(pcs) == {i \in Slots : inv[i].pc \in pcs}
isLoading == Awaiting({"append"}) # {} \/ reloads > 0
isStreaming == isLoading \/ fakeLoading

(* sendMessage *)
IdleInv == [pc |-> "idle", input |-> <<>>, isLoading |-> FALSE,
            error |-> FALSE, messages |-> <<>>, chatStarted |-> FALSE,
            fileModifications |-> FALSE, overlapped |-> FALSE,
            fakeLoading |-> FALSE, log |-> <<>>]

Active(i) == inv[i].pc # "idle"

\* mutant: the guard forgets isLoading
GuardInputOnly(in, loading) == Len(in) = 0

\* line 265: the early return
Guard(in, loading) == Len(in) = 0 \/ loading

\* line 281: the starter-template path
TemplatePath(started, in, auto) == ~started /\ in # <<>> /\ auto

\* mutant: saveChat lets a failure escape
SaveChatRethrows(outcome) == outcome = "ok"

\* lines 178-192: whether saveChat's try/catch swallows the outcome
SaveChatCatches(outcome) == outcome \in {"ok", "http_error", "network_error"}

Log(i, pc, events) ==
    [inv EXCEPT ![i] = [@ EXCEPT !.pc = pc, !.log = @ \o events]]

\* the invocation of slot i ends (how: "returned" by the guard, "done",
\* "threw"); fake is the value of fakeLoading it leaves behind
Return(i, r, how, events, fake) ==
    /\ returned' = [IdleInv EXCEPT !.pc = how, !.log = r.log \o events,
                                   !.input = r.input,
                                   !.isLoading = r.isLoading,
                                   !.chatStarted = r.chatStarted,
                                   !.overlapped = r.overlapped,
                                   !.fakeLoading = fake]
    /\ inv' = [inv EXCEPT ![i] = IdleInv]

\* lines 414-419
Cleanup ==
    /\ input' = <<>>
    /\ cookies' = CookiesRemove(cookies, PROMPT_COOKIE_KEY)

\* lines 263-269; of the messages of the closure only what line 270 reads
\* is kept
Start(i, messageInput) ==
    /\ sends < MaxSends
    /\ ~Active(i)
    /\ \A j \in Slots : j < i => Active(j)
    /\ sends' = sends + 1
    /\ LET in == OrElse(messageInput, input)
           r == [IdleInv EXCEPT !.input = in, !.isLoading = isLoading,
                                !.error = error,
                                !.messages = IF error THEN messages ELSE <<>>,
                                !.chatStarted = chatStarted,
                                !.overlapped = \E j \in Slots : Active(j)]
       IN IF Guard(in, isLoading)
          THEN Return(i, r, "returned", <<>>, fakeLoading)
          ELSE /\ inv' = [inv EXCEPT ![i] =
                             [r EXCEPT !.pc = "saveAllFiles",
                                       !.log = <<"saveAllFiles">>]]
               /\ UNCHANGED returned
    /\ UNCHANGED <<input, messages, error, reloads, chatStarted, fakeLoading,
                   autoSelectTemplate, fileMods, animating, cookies,
                   debounceTimer, loadState, chats, toast, silent,
                   uncaught, doneClean>>
    /\ UNCHANGED cookieVars
    /\ UNCHANGED samplerVars

\* lines 269-277: saveAllFiles settles; up to the call of saveChat
SaveAllFilesSettle(i, ok) ==
    /\ inv[i].pc = "saveAllFiles"
    /\ IF ok
       THEN /\ messages' = IF inv[i].error
                           THEN SubSeq(inv[i].messages, 1,
                                       Len(inv[i].messages) - 1)
                           ELSE messages
            /\ animating' = (animating \/ ~inv[i].chatStarted)
            /\ inv' = [inv EXCEPT ![i] =
                          [@ EXCEPT !.pc = "saveChat",
                                    !.fileModifications = fileMods,
                                    !.log = @ \o <<"saveAllFiles:ok",
                                                   "post:user">>]]
            /\ UNCHANGED <<uncaught, returned>>
       ELSE /\ Return(i, inv[i], "threw", <<"saveAllFiles:rejected">>,
                      fakeLoading)
            /\ uncaught' = uncaught \cup {"saveAllFiles"}
            /\ UNCHANGED <<messages, animating>>
    /\ UNCHANGED <<input, error, reloads, chatStarted, fakeLoading,
                   autoSelectTemplate, fileMods, cookies, debounceTimer,
                   loadState, chats, sends, toast, silent, doneClean>>
    /\ UNCHANGED cookieVars
    /\ UNCHANGED samplerVars

SaveOutcomes == {"ok", "http_error", "network_error"}

\* lines 176-193, also as awaited by onFinish (lines 141-145)
SaveChatReport(outcome) ==
    IF outcome = "ok" THEN NoFailure ELSE Toast("save-chat")

\* useChat: reload() or append() starts a request and clears error
HookRequest == error' = FALSE

\* lines 277-300 and 384-408: saveChat settles; up to the next await
SaveChatSettle(i, outcome) ==
    /\ inv[i].pc = "saveChat"
    /\ SaveChatReport(outcome)
    /\ LET r == inv[i]
           ev == IF outcome = "ok" THEN "post:ok" ELSE "post:failed"
           msg == UserPartsMessage(model, provider, r.input)
       IN IF ~SaveChatCatches(outcome)
          THEN /\ Return(i, r, "threw", <<ev>>, fakeLoading)
               /\ uncaught' = uncaught \cup {"save-chat"}
               /\ UNCHANGED <<messages, error, fakeLoading>>
          ELSE IF TemplatePath(r.chatStarted, r.input, autoSelectTemplate)
          THEN /\ fakeLoading' = TRUE
               /\ messages' = <<msg>>
               /\ inv' = Log(i, "select", <<ev, "setFakeLoading",
                                            "setMessages",
                                            "selectStarterTemplate">>)
               /\ UNCHANGED <<error, uncaught, returned>>
          ELSE /\ messages' =
                      Append(messages,
                             AppendedMessage(model, provider, r.input))
               /\ HookRequest
               /\ inv' = Log(i, "append", <<ev, "append">>)
               /\ UNCHANGED <<fakeLoading, uncaught, returned>>
    /\ UNCHANGED <<input, reloads, chatStarted, autoSelectTemplate, fileMods,
                   animating, cookies, debounceTimer, loadState, chats, sends,
                   doneClean>>
    /\ UNCHANGED cookieVars
    /\ UNCHANGED samplerVars

\* lines 300-306, 361-381 and the catch of lines 410-419
SelectSettle(i, outcome) ==
    /\ inv[i].pc = "select"
    /\ CASE outcome = "rejected" ->
             /\ Silent("selectStarterTemplate")
             /\ Cleanup
             /\ Return(i, inv[i], "done",
                       <<"select:rejected", "catch", "cleanup">>, fakeLoading)
             /\ doneClean' = TRUE
             /\ UNCHANGED <<messages, error, reloads, fakeLoading>>
         [] outcome = "blank" ->
             /\ messages' =
                   <<UserPartsMessage(model, provider, inv[i].input)>>
             /\ reloads' = reloads + 1
             /\ HookRequest
             /\ fakeLoading' = FALSE
             /\ Return(i, inv[i], "done",
                       <<"select:blank", "setMessages", "reload", "return">>,
                       FALSE)
             /\ doneClean' = TRUE
             /\ NoFailure
             /\ UNCHANGED <<input, cookies>>
         [] outcome = "template" ->
             /\ inv' = Log(i, "getTemplates", <<"select:template",
                                                "getTemplates">>)
             /\ NoFailure
             /\ UNCHANGED <<input, cookies, messages, error, reloads,
                            fakeLoading, doneClean, returned>>
    /\ UNCHANGED <<chatStarted, autoSelectTemplate, fileMods, animating,
                   debounceTimer, loadState, chats, sends, uncaught>>
    /\ UNCHANGED cookieVars
    /\ UNCHANGED samplerVars

\* lines 307-360
GetTemplatesSettle(i, outcome) ==
    /\ inv[i].pc = "getTemplates"
    /\ reloads' = reloads + 1
    /\ HookRequest
    /\ fakeLoading' = FALSE
    /\ IF outcome = "ok"
       THEN /\ messages' = TemplateMessages(model, provider, inv[i].input)
            /\ inv' = Log(i, "saveChatBot", <<"getTemplates:ok", "setMessages",
                                              "reload", "post:bot">>)
            /\ NoFailure
            /\ UNCHANGED <<doneClean, returned>>
       ELSE /\ Toast("getTemplates")
            /\ messages' =
                  <<UserPartsMessage(model, provider, inv[i].input)>>
            /\ Return(i, inv[i], "done",
                      <<"getTemplates:failed", "setMessages", "reload",
                        "return">>, FALSE)
            /\ doneClean' = TRUE
    /\ UNCHANGED <<input, chatStarted, autoSelectTemplate, fileMods,
                   animating, cookies, debounceTimer, loadState, chats, sends,
                   uncaught>>
    /\ UNCHANGED cookieVars
    /\ UNCHANGED samplerVars

\* lines 338-339
SaveChatBotSettle(i, outcome) ==
    /\ inv[i].pc = "saveChatBot"
    /\ SaveChatReport(outcome)
    /\ Return(i, inv[i], "done", <<"post:settled", "return">>, fakeLoading)
    /\ doneClean' = TRUE
    /\ UNCHANGED <<input, messages, error, reloads, chatStarted, fakeLoading,
                   autoSelectTemplate, fileMods, animating, cookies,
                   debounceTimer, loadState, chats, sends, uncaught>>
    /\ UNCHANGED cookieVars
    /\ UNCHANGED samplerVars

\* useChat: a request ends: the reply arrives and onFinish saves it
\* (lines 141-145), or onError reports the failure (lines 135-140), or the
\* promise of append rejects
HookFinish(outcome, botSave) ==
    CASE outcome = "ok" ->
          /\ messages' = Append(messages, AssistantReply)
          /\ SaveChatReport(botSave)
          /\ UNCHANGED error
      [] outcome = "error" ->
          /\ botSave = "ok"
          /\ error' = TRUE
          /\ Toast("append")
          /\ UNCHANGED messages
      [] outcome = "rejected" ->
          /\ botSave = "ok"
          /\ Silent("append")
          /\ UNCHANGED <<messages, error>>

\* lines 384-419: the awaited append settles
AppendSettle(i, outcome, botSave) ==
    /\ inv[i].pc = "append"
    /\ HookFinish(outcome, botSave)
    /\ fileMods' = IF outcome # "rejected" /\ inv[i].fileModifications
                   THEN FALSE ELSE fileMods
    /\ Cleanup
    /\ Return(i, inv[i], "done",
              IF outcome = "rejected"
              THEN <<"append:rejected", "catch", "cleanup">>
              ELSE <<"append:settled", "cleanup">>, fakeLoading)
    /\ doneClean' = TRUE
    /\ UNCHANGED <<reloads, chatStarted, fakeLoading, autoSelectTemplate,
                   animating, debounceTimer, loadState, chats, sends,
                   uncaught>>
    /\ UNCHANGED cookieVars
    /\ UNCHANGED samplerVars

\* useChat: a request started by reload() ends
ReloadSettle(outcome, botSave) ==
    /\ reloads > 0
    /\ reloads' = reloads - 1
    /\ HookFinish(outcome, botSave)
    /\ UNCHANGED <<input, chatStarted, fakeLoading, autoSelectTemplate,
                   fileMods, animating, cookies, debounceTimer, loadState,
                   chats, inv, returned, sends, uncaught, doneClean>>
    /\ UNCHANGED cookieVars
    /\ UNCHANGED samplerVars

\* lines 253-261: the animations end
AnimationDone ==
    /\ animating
    /\ animating' = FALSE
    /\ chatStarted' = TRUE
    /\ UNCHANGED <<input, messages, error, reloads, fakeLoading,
                   autoSelectTemplate, fileMods, cookies, debounceTimer,
                   loadState, chats, inv, returned, sends, toast, silent,
                   uncaught, doneClean>>
    /\ UNCHANGED cookieVars
    /\ UNCHANGED samplerVars

\* a file is edited in the workbench
FileEdit ==
    /\ ~fileMods
    /\ fileMods' = TRUE
    /\ UNCHANGED <<input, messages, error, reloads, chatStarted, fakeLoading,
                   autoSelectTemplate, animating, cookies, debounceTimer,
                   loadState, chats, inv, returned, sends, toast, silent,
                   uncaught, doneClean>>
    /\ UNCHANGED cookieVars
    /\ UNCHANGED samplerVars

\* lines 471-474: handleInputChange restarts the debounce timer
InputChange(v) ==
    /\ v # input
    /\ input' = v
    /\ debounceTimer' = TRUE
    /\ doneClean' = FALSE
    /\ UNCHANGED <<messages, error, reloads, chatStarted, fakeLoading,
                   autoSelectTemplate, fileMods, animating, cookies,
                   loadState, chats, inv, returned, sends, toast, silent,
                   uncaught>>
    /\ UNCHANGED cookieVars
    /\ UNCHANGED samplerVars

\* lines 426-432: the timer fires; event.target is the textarea, whose
\* value is read now
DebounceFire ==
    /\ debounceTimer
    /\ debounceTimer' = FALSE
    /\ cookies' = CookiesSet(cookies, PROMPT_COOKIE_KEY, Trim(input))
    /\ UNCHANGED <<input, messages, error, reloads, chatStarted, fakeLoading,
                   autoSelectTemplate, fileMods, animating, loadState, chats,
                   inv, returned, sends, toast, silent, uncaught, doneClean>>
    /\ UNCHANGED cookieVars
    /\ UNCHANGED samplerVars

\* lines 488-504
EnhancePrompt(ok) ==
    /\ input # <<>>
    /\ IF ok
       THEN /\ input' = <<"a">>
            /\ doneClean' = (doneClean /\ input' = input)
            /\ NoFailure
       ELSE /\ Toast("enhancePrompt")
            /\ UNCHANGED <<input, doneClean>>
    /\ UNCHANGED <<messages, error, reloads, chatStarted, fakeLoading,
                   autoSelectTemplate, fileMods, animating, cookies,
                   debounceTimer, loadState, chats, inv, returned, sends,
                   uncaught>>
    /\ UNCHANGED cookieVars
    /\ UNCHANGED samplerVars

----------------------------------------------------------------------------
StoredMessage == FormatChat(Record(3, "user", <<"a">>, <<>>))

EmptyJar == [selectedModel |-> Absent, selectedProvider |-> Absent,
             cachedPrompt |-> Absent]

\* lines 110-117 and 147: the state a mount takes from the cookie jar
MountModel(jar) == OrElse(CookiesGet(jar, "selectedModel"), DEFAULT_MODEL)
MountProvider(jar) ==
    LET savedProvider == CookiesGet(jar, "selectedProvider")
        found == {k \in 1..Len(PROVIDER_LIST) :
                     PROVIDER_LIST[k].name = savedProvider}
    IN IF found = {} THEN DEFAULT_PROVIDER
       ELSE PROVIDER_LIST[CHOOSE k \in found : \A j \in found : k <= j]
MountInput(jar) == OrElse(CookiesGet(jar, PROMPT_COOKIE_KEY), <<>>)

SamplerIdle ==
    /\ now = SampleInterval
    /\ lastTime = 0
    /\ lastArgs = [messages |-> <<>>, initialMessages |-> <<>>, set |-> FALSE]
    /\ timeout = NoTimer
    /\ fired = <<>>
    /\ stored = {}

Init ==
    /\ cookies \in {EmptyJar, CookiesSet(EmptyJar, PROMPT_COOKIE_KEY, <<"a">>)}
    /\ initialMessages \in {<<>>, <<StoredMessage>>}
    /\ autoSelectTemplate \in BOOLEAN
    /\ input = MountInput(cookies)
    /\ messages = initialMessages
    /\ chatStarted = (Len(initialMessages) > 0)
    /\ error = FALSE
    /\ reloads = 0
    /\ fakeLoading = FALSE
    /\ fileMods = FALSE
    /\ animating = FALSE
    /\ model = MountModel(cookies)
    /\ provider = MountProvider(cookies)
    /\ debounceTimer = FALSE
    /\ loadState = "fetch"
    /\ chats = NoBody
    /\ inv = [i \in Slots |-> IdleInv]
    /\ sends = 0
    /\ returned = IdleInv
    /\ toast = "none"
    /\ silent = {}
    /\ uncaught = {}
    /\ doneClean = FALSE
    /\ modelChanged = FALSE
    /\ providerChanged = FALSE
    /\ sessions = 1
    /\ SamplerIdle



----------------------------------------------------------------------------
(* Model and provider selection, and a later session *)

\* mutant: the model is written to the provider's cookie
HandleModelChangeWrongKey(newModel) ==
    /\ model' = newModel
    /\ cookies' = CookiesSet(cookies, "selectedProvider", newModel)
    /\ modelChanged' = TRUE
    /\ UNCHANGED <<input, messages, error, reloads, chatStarted, fakeLoading,
                   autoSelectTemplate, fileMods, animating, debounceTimer,
                   loadState, chats, inv, returned, sends, toast, silent,
                   uncaught, doneClean, provider, providerChanged, sessions>>
    /\ UNCHANGED samplerVars

\* lines 443-446
HandleModelChange(newModel) ==
    /\ model' = newModel
    /\ cookies' = CookiesSet(cookies, "selectedModel", newModel)
    /\ modelChanged' = TRUE
    /\ UNCHANGED <<input, messages, error, reloads, chatStarted, fakeLoading,
                   autoSelectTemplate, fileMods, animating, debounceTimer,
                   loadState, chats, inv, returned, sends, toast, silent,
                   uncaught, doneClean, provider, providerChanged, sessions>>
    /\ UNCHANGED samplerVars

\* lines 448-451
HandleProviderChange(newProvider) ==
    /\ provider' = newProvider
    /\ cookies' = CookiesSet(cookies, "selectedProvider", newProvider.name)
    /\ providerChanged' = TRUE
    /\ UNCHANGED <<input, messages, error, reloads, chatStarted, fakeLoading,
                   autoSelectTemplate, fileMods, animating, debounceTimer,
                   loadState, chats, inv, returned, sends, toast, silent,
                   uncaught, doneClean, model, modelChanged, sessions>>
    /\ UNCHANGED samplerVars

\* lines 96-148: the page is left and ChatImpl mounts again in a later
\* session; only the cookie jar survives
Remount ==
    /\ sessions < MaxSessions
    /\ \A i \in Slots : ~Active(i)
    /\ reloads = 0
    /\ sessions' = sessions + 1
    /\ model' = MountModel(cookies)
    /\ provider' = MountProvider(cookies)
    /\ input' = MountInput(cookies)
    /\ modelChanged' = FALSE
    /\ providerChanged' = FALSE
    /\ debounceTimer' = FALSE
    /\ messages' = initialMessages
    /\ chatStarted' = (Len(initialMessages) > 0)
    /\ error' = FALSE
    /\ fakeLoading' = FALSE
    /\ animating' = FALSE
    /\ loadState' = "fetch"
    /\ chats' = NoBody
    /\ returned' = IdleInv
    /\ doneClean' = FALSE
    /\ toast' = "none"
    /\ UNCHANGED <<reloads, autoSelectTemplate, fileMods, cookies, inv, sends,
                   silent, uncaught>>
    /\ UNCHANGED samplerVars

----------------------------------------------------------------------------
(* processSampledMessages *)
TickMs == SampleInterval \div 2
NoArgs == [messages |-> <<>>, initialMessages |-> <<>>, set |-> FALSE]
Args(ms, ims) == [messages |-> ms, initialMessages |-> ims, set |-> TRUE]

\* mutant: >= in place of >
NotShorterThanInitial(ms, ims) == Len(ms) >= Len(ims)

\* line 81
LongerThanInitial(ms, ims) == Len(ms) > Len(ims)

\* lines 78-84: the sampled callback; storeMessageHistory may reject
ProcessMessages(args, storeOk) ==
    /\ fired' = Append(fired, now)
    /\ IF LongerThanInitial(args.messages, args.initialMessages)
       THEN /\ stored' = stored \cup {<<Len(args.messages),
                                        Len(args.initialMessages)>>}
            /\ IF storeOk THEN NoFailure ELSE Toast("storeMessageHistory")
       ELSE /\ storeOk
            /\ UNCHANGED stored
            /\ NoFailure

\* createSampler(fn, 50): a call runs fn at once when the interval has
\* passed since the last run and no trailing run is pending; otherwise it
\* keeps the latest arguments for one trailing run at the end of the interval
Sampled(args, storeOk) ==
    IF now - lastTime >= SampleInterval /\ timeout = NoTimer
    THEN /\ lastTime' = now
         /\ lastArgs' = NoArgs
         /\ ProcessMessages(args, storeOk)
         /\ UNCHANGED timeout
    ELSE /\ storeOk
         /\ lastArgs' = args
         /\ timeout' = IF timeout = NoTimer THEN lastTime + SampleInterval
                       ELSE timeout
         /\ NoFailure
         /\ UNCHANGED <<lastTime, fired, stored>>

SamplerRest ==
    UNCHANGED <<input, error, reloads, chatStarted, fakeLoading,
                autoSelectTemplate, fileMods, animating, cookies,
                debounceTimer, loadState, chats, inv, returned, sends,
                uncaught, doneClean, model, provider, modelChanged,
                providerChanged, sessions, initialMessages>>

\* lines 220-228: messages changed (a streamed message, or setMessages
\* with a shorter list) and the effect calls processSampledMessages
MessagesEffect(newMessages, storeOk) ==
    /\ newMessages # messages
    /\ messages' = newMessages
    /\ Sampled(Args(newMessages, initialMessages), storeOk)
    /\ UNCHANGED now
    /\ SamplerRest

\* the trailing timer of the sampler fires
SamplerTimeout(storeOk) ==
    /\ timeout # NoTimer
    /\ now >= timeout
    /\ timeout' = NoTimer
    /\ lastTime' = now
    /\ lastArgs' = NoArgs
    /\ IF lastArgs.set
       THEN ProcessMessages(lastArgs, storeOk)
       ELSE storeOk /\ NoFailure /\ UNCHANGED <<fired, stored>>
    /\ UNCHANGED <<now, messages>>
    /\ SamplerRest

\* time passes; a due timer fires before time passes further
Tick ==
    /\ now + TickMs <= MaxTime
    /\ timeout = NoTimer \/ now < timeout
    /\ now' = now + TickMs
    /\ UNCHANGED <<messages, lastTime, lastArgs, timeout, fired, stored,
                   toast, silent>>
    /\ SamplerRest

MessageLists ==
    {<<>>} \cup {[k \in 1..n |-> AssistantReply] : n \in 1..MaxLen}

----------------------------------------------------------------------------
AllBodies ==
    LET Records == {Record(i, s, <<"a">>, u) :
                       i \in {7, 12, NullId},
                       s \in {"user", "bot", "system"},
                       u \in {<<>>, <<"u">>}}
    IN BadBodies \cup {ArrayBody(<<>>)}
         \cup {ArrayBody(<<r>>) : r \in Records}
         \cup {ArrayBody(<<r, q>>) : r \in Records, q \in Records}

\* one sendMessage at a time
Sequential == {1}

SendStep(slots) ==
    \/ \E i \in slots, m \in MessageInputs : Start(i, m)
    \/ \E i \in slots, ok \in BOOLEAN : SaveAllFilesSettle(i, ok)
    \/ \E i \in slots, o \in SaveOutcomes : SaveChatSettle(i, o)
    \/ \E i \in slots, o \in {"blank", "template", "rejected"} :
          SelectSettle(i, o)
    \/ \E i \in slots, o \in {"ok", "rate_limit", "failed"} :
          GetTemplatesSettle(i, o)
    \/ \E i \in slots, o \in SaveOutcomes : SaveChatBotSettle(i, o)
    \/ \E i \in slots, o \in {"ok", "error", "rejected"}, b \in SaveOutcomes :
          AppendSettle(i, o, b)
    \/ \E o \in {"ok", "error"}, b \in SaveOutcomes : ReloadSettle(o, b)
    \/ AnimationDone
    \/ FileEdit

\* the operations that can fail: sendMessage (one at a time), the load on
\* mount and prompt enhancement
Next ==
    \/ SendStep(Sequential)
    \/ LoadFetchSettle(SmallBodies)
    \/ LoadJsonSettle
    \/ \E ok \in BOOLEAN : EnhancePrompt(ok)

Spec == Init /\ [][Next]_vars

\* sendMessage alone, one invocation at a time
NextSend == SendStep(Sequential)
SpecSend == Init /\ [][NextSend]_vars

\* sendMessage alone, invocations overlapping
NextOverlap == SendStep(Slots)
SpecOverlap == Init /\ [][NextOverlap]_vars

\* sendMessage (one at a time) and the draft prompt
NextDraft ==
    \/ SendStep(Sequential)
    \/ \E v \in InputTexts : InputChange(v)
    \/ DebounceFire
SpecDraft == Init /\ [][NextDraft]_vars

\* the load on mount
NextLoad ==
    \/ LoadFetchSettle(AllBodies)
    \/ LoadJsonSettle
SpecLoad == Init /\ [][NextLoad]_vars

\* what the cookie jar keeps from one session to the next
NextCookie ==
    \/ \E m \in Models : HandleModelChange(m)
    \/ \E p \in Providers : HandleProviderChange(p)
    \/ \E v \in InputTexts : InputChange(v)
    \/ DebounceFire
    \/ Remount
SpecCookie == Init /\ [][NextCookie]_vars

\* the sampled processing of messages
NextSampler ==
    \/ \E ms \in MessageLists, ok \in BOOLEAN : MessagesEffect(ms, ok)
    \/ \E ok \in BOOLEAN : SamplerTimeout(ok)
    \/ Tick
SpecSampler == Init /\ [][NextSampler]_vars

----------------------------------------------------------------------------
(* Properties *)
RECURSIVE Count(_, _)
Count(log, e) ==
    IF log = <<>> THEN 0
    ELSE (IF Head(log) = e THEN 1 ELSE 0) + Count(Tail(log), e)

Has(log, e) == \E k \in 1..Len(log) : log[k] = e
Before(log, a, b) ==
    \A k \in 1..Len(log) : log[k] = b => \E j \in 1..(k - 1) : log[j] = a

\* the invocations in flight and the one that ended last
Invocations == {inv[i] : i \in Slots} \cup {returned}
Ended == {r \in {returned} : r.pc # "idle"}
Requests(log) == Count(log, "append") + Count(log, "reload")

\* C1, as claimed: an invocation with non-empty effective input while
\* isLoading is false calls append exactly once, whatever chatStarted,
\* autoSelectTemplate, error, the file modifications and the save-chat
\* outcome are; an invocation with empty input or isLoading calls it never.
\* (Stated of the invocations that returned without throwing.)
C1_ExactlyOneAppend ==
    \A r \in Ended :
        r.pc \in {"returned", "done"} =>
            Count(r.log, "append") =
                IF r.input # <<>> /\ ~r.isLoading THEN 1 ELSE 0

\* C1, amended: an invocation stopped by the guard (empty input or
\* isLoading) calls append never; one that passed it calls append at most
\* once, and when it has returned it has called append exactly once if it
\* was off the starter-template path, and never on the starter-template
\* path (not chatStarted, autoSelectTemplate), where it calls reload at most
\* once instead; an invocation whose saveAllFiles rejected calls neither.
C1_AppendOffTemplatePath ==
    \A r \in Invocations :
        LET appends == Count(r.log, "append")
            template ==
                TemplatePath(r.chatStarted, r.input, autoSelectTemplate)
        IN /\ appends <= 1
           /\ (r.input = <<>> \/ r.isLoading) => Requests(r.log) = 0
           /\ r.pc = "threw" => Requests(r.log) = 0
           /\ r.pc = "done" /\ ~template =>
                 appends = 1 /\ Count(r.log, "reload") = 0
           /\ r.pc = "done" /\ template =>
                 appends = 0 /\ Count(r.log, "reload") <= 1

C1_Witness ==
    /\ returned.pc = "done"
    /\ returned.input # <<>>
    /\ ~returned.isLoading
    /\ Count(returned.log, "append") = 1
    /\ Has(returned.log, "post:ok")

\* C2, as claimed: every failure of the get-chats load, the save-chat POST,
\* the starter-template selection, the template fetch, append and the
\* prompt enhancement is followed by a toast, and none leaves its handler.
C2_EveryFailureToasted ==
    /\ silent = {}
    /\ uncaught \cap {"get-chats", "save-chat", "selectStarterTemplate",
                      "getTemplates", "append", "enhancePrompt"} = {}

\* C4, as claimed: once a sendMessage that passed the guard has returned
\* and the input has not changed since, the draft cookie is absent and the
\* input is empty.
C4_NoSentDraftLeft ==
    doneClean =>
        /\ CookiesGet(cookies, PROMPT_COOKIE_KEY) = Absent
        /\ input = <<>>

\* C7: in every invocation saveAllFiles has resolved before the save-chat
\* POST starts, that POST has settled before append or reload is called,
\* and an invocation whose POST failed still goes on to the language-model
\* step: it ends with exactly one append or reload unless the template
\* selection rejected.
C7_SequentialAwaits ==
    \A r \in Invocations :
        /\ Before(r.log, "saveAllFiles:ok", "post:user")
        /\ \A e \in {"append", "reload", "selectStarterTemplate"} :
              \/ Before(r.log, "post:ok", e)
              \/ Before(r.log, "post:failed", e)
        /\ Before(r.log, "post:user", "post:ok")
        /\ Before(r.log, "post:user", "post:failed")
        /\ r.pc \in {"done", "threw"} /\ Has(r.log, "post:failed") =>
              \/ Has(r.log, "append")
              \/ Has(r.log, "selectStarterTemplate")
        /\ r.pc = "done" /\ Has(r.log, "post:failed")
              /\ ~Has(r.log, "select:rejected") => Requests(r.log) = 1

C7_Witness ==
    /\ returned.pc = "done"
    /\ Has(returned.log, "post:failed")
    /\ Has(returned.log, "reload")

\* C8, as claimed: an invocation that starts while another one that passed
\* the guard has not returned issues no save-chat POST, no append and no
\* reload.
C8_GuardSerialises ==
    \A r \in Invocations :
        r.overlapped =>
            ~Has(r.log, "post:user") /\ Requests(r.log) = 0

\* C9, as claimed: an invocation that set fakeLoading to true leaves it
\* false when it returns.
C9_FakeLoadingReset ==
    \A r \in Ended :
        Has(r.log, "setFakeLoading") => ~r.fakeLoading

RECURSIVE FromDigits(_)
FromDigits(s) ==
    IF s = <<>> THEN 0
    ELSE 10 * FromDigits(SubSeq(s, 1, Len(s) - 1))
         + (CHOOSE d \in 0..9 : Digit(d) = s[Len(s)])

\* C5: after a successful load, messages has one message per chat record,
\* in order: its id is the decimal string of the record's id, its role is
\* "user" exactly when the sender is "user" and "assistant" otherwise, and
\* its content is the message text when image_url is empty, else the text
\* part followed by the image part.
C5_LoadReshapes ==
    loadState = "done" =>
        /\ Len(messages) = Len(chats.list)
        /\ \A k \in 1..Len(chats.list) :
              LET chat == chats.list[k]
                  m == messages[k]
              IN /\ \A j \in 1..Len(m.id) : \E d \in 0..9 : m.id[j] = Digit(d)
                 /\ FromDigits(m.id) = chat.id
                 /\ m.role = "user" <=> chat.sender = "user"
                 /\ m.role \in {"user", "assistant"}
                 /\ chat.image_url = <<>> =>
                       m.content = [kind |-> "string", text |-> chat.message,
                                    parts |-> <<>>]
                 /\ chat.image_url # <<>> =>
                       /\ m.content.kind = "parts"
                       /\ m.content.parts =
                             << [type |-> "text", value |-> chat.message],
                                [type |-> "image", value |-> chat.image_url] >>

C5_Witness ==
    /\ loadState = "done"
    /\ Len(messages) = 2
    /\ chats.list[1].sender = "bot"
    /\ chats.list[1].id = 12
    /\ messages[1].role = "assistant"
    /\ chats.list[2].image_url # <<>>

\* C6: two runs of the sampled callback are at least 50 ms apart, and
\* storeMessageHistory is only ever given a list longer than
\* initialMessages.
C6_SampledAtMostOncePerInterval ==
    /\ \A k \in 2..Len(fired) : fired[k] - fired[k - 1] >= SampleInterval
    /\ \A p \in stored : p[1] > p[2]

C6_Witness ==
    /\ Len(fired) >= 2
    /\ stored # {}
    /\ timeout # NoTimer
    /\ lastArgs.set
    /\ Len(lastArgs.messages) <= Len(lastArgs.initialMessages)

\* C10, as claimed: the setMessages of the load on mount keeps every user
\* message that sendMessage added to messages in this session.
C10_LoadKeepsSessionMessages ==
    [][loadState = "json" /\ loadState' = "done" =>
          \A k \in 1..Len(messages) :
              messages[k].role = "user" /\ messages[k].id \in {TimeId, HookId}
                  => \E j \in 1..Len(messages') : messages'[j] = messages[k]
      ]_vars

====
